---- MODULE Spec2Model ----
(***************************************************************************)
(* Concurrency toolkit of 10_concurrency/examples/advanced.rs:             *)
(* ThreadPool + Worker over a shared mpsc job queue, the Actor with its    *)
(* mailbox, the RwLock Cache, the atomic Counter and parallel_sum; and     *)
(* LRUCache of 04_collections/examples/advanced.rs and with_retry of       *)
(* 05_error_handling/examples/advanced.rs.  Every thread is modelled by a  *)
(* program counter; one action is one atomic step between two blocking     *)
(* points of the code.                                                     *)
(***************************************************************************)
EXTENDS Integers, Sequences, FiniteSets, TLC

\* ------------------------------------------------------------------ bounds
MaxSize == 2        \* largest `size` handed to ThreadPool::new
MaxJobs == 4        \* number of execute calls explored
MaxMsgs == 3        \* number of Actor::send calls explored
MaxProducers == 2   \* threads sharing one &Actor to call send
MaxCacheThreads == 3 \* threads sharing one Cache
MaxKeys == 2        \* distinct keys handed to get / insert
MaxVals == 2        \* distinct values handed to insert
MaxCounterThreads == 2 \* T: threads sharing one Counter
MaxIncs == 2        \* K: increment calls per thread
MaxLen == 104       \* longest slice handed to parallel_sum
MaxGen == 3         \* number of different slice contents per length
MaxCapacity == 2    \* largest capacity handed to LRUCache::new
MaxLruKeys == 3     \* distinct keys handed to LRUCache get / put
MaxLruVals == 2     \* distinct values handed to LRUCache put
MaxAttempts == 3    \* largest max_attempts handed to with_retry
MaxOutcomes == 2    \* distinct Ok values, and distinct errors, f can produce

WorkerIds == 0 .. (MaxSize - 1)
Jobs      == 1 .. MaxJobs
NoOne     == -1     \* the receiver mutex is free

VARIABLES
    pool,           \* "none" | "live" | "dropping" | "dropped"
    size,           \* workers.len()
    senderOpen,     \* ThreadPool.sender still exists (channel not closed)
    queue,          \* jobs buffered in the mpsc channel, oldest first
    mutex,          \* worker holding the Mutex<Receiver> guard, or NoOne
    poisoned,       \* the Mutex<Receiver> is poisoned
    wpc,            \* per worker thread: where it is in its loop
    wjob,           \* per worker: the job it is running (0: none)
    handle,         \* per worker: Worker.handle is Some
    joins,          \* per worker: how often its handle was joined
    nexec,          \* number of execute calls made so far
    accepted,       \* jobs whose execute returned normally
    started,        \* per job: how often it was invoked
    ranBy,          \* the workers that have invoked a job (history)
    finished,       \* per job: how often it returned
    dropIdx,        \* Drop's position in `for worker in &mut self.workers`
    pendingAtDrop,  \* queue length when Drop began (history)
    callerPanicked, \* execute's unwrap panicked in the caller
    scenario,       \* which of the (independent) components this run exercises
    actor,          \* "none" | "live" | "stopping" | "stopped" | "dropped"
    mailbox,        \* Message<T> values buffered in the actor's channel
    apc,            \* the actor thread: where it is in its loop
    acur,           \* the item the processor is running on (0: none)
    nsend,          \* number of Actor::send calls made so far
    sent,           \* items whose send returned Ok, in call order
    refused,        \* items whose send returned Err
    processed,      \* items the processor was invoked on, in order
    completed,      \* items on which the processor returned
    stopSent,       \* items sent Ok before stop() was called (history)
    ajoined,        \* how often the actor thread's handle was joined
    inflight,       \* items whose processor invocation is in progress
    producerOf,     \* per item: the thread that called send (0: not sent)
    cache,          \* "none" | "live"
    cmap,           \* the HashMap: per key its value, or Absent
    torn,           \* keys whose entry is in the middle of map.insert
    readers,        \* threads holding a read guard of the RwLock
    writers,        \* threads holding a write guard of the RwLock
    cpc,            \* per cache thread: where it is in get / insert, or "panicked"
    ckey,           \* per cache thread: the key of its call (0: none)
    cval,           \* per cache thread: the value of its insert (0: none)
    committed,      \* per key: value of the last completed insert (history)
    lastGet,        \* key, result and expected result of the last get (history)
    rwPoisoned,     \* the RwLock is poisoned
    poisonFailures, \* kinds of calls that failed on the poisoned RwLock (history)
    counter,        \* "none" | "live" | "joined"
    count,          \* Counter.count
    kcalls,         \* per counter thread: increment calls made
    returned,       \* the increment calls so far: thread and returned value
    finalGet,       \* result of get() after all threads were joined (-1: none)
    ppc,            \* parallel_sum: "none" | "right" | "join" | "returned"
    data,           \* the slice parallel_sum was called with
    left,           \* first part of data.split_at(mid)
    right,          \* second part of data.split_at(mid)
    childpc,        \* the scoped thread: "unspawned" | "running" | "done"
    childJoined,    \* left_handle.join() has returned
    leftSum,        \* the scoped thread's result
    rightSum,       \* right_sum
    result,         \* the value parallel_sum returned
    spawns,         \* threads spawned by the call
    depth,          \* deepest nesting of spawned threads reached by the call
    lru,            \* LRUCache: "none" | "live"
    capacity,       \* LRUCache.capacity
    map,            \* LRUCache.map: per key its value, or Absent
    order,          \* LRUCache.order: keys, most recent at front
    lruGot,         \* result of the last LRUCache::get
    recency,        \* keys ever used, latest use first (history)
    rpc,            \* with_retry: "none" | "call" | "sleep" | "ok" | "err" | "panicked"
    maxAttempts,    \* max_attempts
    attempt,        \* the loop variable `attempt`
    lastError,      \* last_error: NoError for None, else the error
    retVal,         \* the value or error with_retry returned (0: none)
    slept,          \* the delays slept so far, in ms
    outcomes        \* the results of the calls of f so far (history)

poolVars == <<pool, size, senderOpen, queue, mutex, poisoned, wpc, wjob,
              handle, joins, nexec, accepted, started, ranBy, finished,
              dropIdx, pendingAtDrop, callerPanicked>>

actorVars == <<actor, mailbox, apc, acur, nsend, sent, refused, processed, completed,
               stopSent, ajoined, inflight, producerOf>>

cacheVars == <<cache, cmap, torn, readers, writers, cpc, ckey, cval, committed, lastGet,
               rwPoisoned, poisonFailures>>

counterVars == <<counter, count, kcalls, returned, finalGet>>

psumVars == <<ppc, data, left, right, childpc, childJoined, leftSum, rightSum, result,
              spawns, depth>>

lruVars == <<lru, capacity, map, order, lruGot, recency>>

retryVars == <<rpc, maxAttempts, attempt, lastError, retVal, slept, outcomes>>

vars == <<scenario, poolVars, actorVars, cacheVars, counterVars, psumVars, lruVars,
          retryVars>>

\* ------------------------------------------------------------ channel model
\* (a bounded channel of capacity 1, as mpsc::sync_channel(1))
ChanCanSendBounded(q) == Len(q) < 1

\* mpsc::channel() is the unbounded channel: a send never waits for room.
ChanCanSend(q) == TRUE

\* (a stack instead of a queue)
ChanSendFront(q, m) == <<m>> \o q

\* Sender::send appends at the tail of the buffer.
ChanSend(q, m) == Append(q, m)

\* (a peek: the element stays in the buffer)
ChanRestPeek(q) == q

\* (the newest buffered element is handed out)
ChanNewest(q) == q[Len(q)]

\* Receiver::recv hands out the oldest buffered element ...
ChanFront(q) == Head(q)

\* ... and removes it from the buffer.
ChanRest(q) == Tail(q)

\* ------------------------------------------------------------- thread pool
\* A worker thread that has been spawned and has not left its closure.
Alive(w) == wpc[w] \in {"lock", "recv", "run"}

\* A worker thread whose closure has ended (normally or by unwinding).
ThreadEnded(w) == wpc[w] \in {"exited", "panicked"}

\* The Receiver lives in an Arc cloned into every worker closure; the
\* constructor's own Arc is dropped when `new` returns.
ReceiverAlive == \E w \in WorkerIds : Alive(w)

\* The worker ids `0..size` of the constructor's loop.
Spawned(n) == {w \in WorkerIds : w < n}

\* (the sender is kept while joining)
KeepSender(s) == s

\* The sender after `drop(self.sender.take())`: gone.
DropSender(s) == FALSE

\* (the handle is dropped, detaching the thread, instead of joined)
JoinDetached(w) == TRUE

\* `handle.join()` returns once the worker thread has ended.
JoinReturns(w) == ThreadEnded(w)

\* (the guard is bound to a variable and lives through the loop body)
GuardKeptForJob(w) == w

\* Holder of the mutex once `let message = receiver.lock().unwrap().recv();`
\* is complete: the guard is a temporary of that statement and is dropped at
\* its end, before `job()` is called.
GuardAfterRecv(w) == NoOne

\* (every worker is taken to hold the guard while its job runs)
HoldsGuardInJob(w) == TRUE

\* The worker thread owns a live MutexGuard of the receiver mutex: dropping
\* it while the thread unwinds poisons the mutex.
HoldsGuard(w) == mutex = w

PoolInit ==
    /\ pool = "none"
    /\ size = 0
    /\ senderOpen = FALSE
    /\ queue = <<>>
    /\ mutex = NoOne
    /\ poisoned = FALSE
    /\ wpc = [w \in WorkerIds |-> "unspawned"]
    /\ wjob = [w \in WorkerIds |-> 0]
    /\ handle = [w \in WorkerIds |-> FALSE]
    /\ joins = [w \in WorkerIds |-> 0]
    /\ nexec = 0
    /\ accepted = {}
    /\ started = [j \in Jobs |-> 0]
    /\ ranBy = {}
    /\ finished = [j \in Jobs |-> 0]
    /\ dropIdx = 0
    /\ pendingAtDrop = 0
    /\ callerPanicked = FALSE

\* ThreadPool::new(size): no check on size; one Worker::new per id in 0..size.
New(n) ==
    /\ scenario = "pool"
    /\ pool = "none"
    /\ pool' = "live"
    /\ size' = n
    /\ senderOpen' = TRUE
    /\ wpc' = [w \in WorkerIds |-> IF w \in Spawned(n) THEN "lock" ELSE "unspawned"]
    /\ handle' = [w \in WorkerIds |-> w \in Spawned(n)]
    /\ UNCHANGED <<queue, mutex, poisoned, wjob, joins, nexec, accepted, started,
                   ranBy, finished, dropIdx, pendingAtDrop, callerPanicked>>
    /\ UNCHANGED <<scenario, actorVars, cacheVars, counterVars, psumVars, lruVars,
                   retryVars>>

\* ThreadPool::execute, send succeeds: the job is buffered, the call returns.
ExecuteOk ==
    /\ pool = "live"
    /\ ~callerPanicked
    /\ nexec < MaxJobs
    /\ ReceiverAlive
    /\ ChanCanSend(queue)
    /\ nexec' = nexec + 1
    /\ queue' = ChanSend(queue, nexec + 1)
    /\ accepted' = accepted \cup {nexec + 1}
    /\ UNCHANGED <<pool, size, senderOpen, mutex, poisoned, wpc, wjob, handle, joins,
                   started, ranBy, finished, dropIdx, pendingAtDrop, callerPanicked>>
    /\ UNCHANGED <<scenario, actorVars, cacheVars, counterVars, psumVars, lruVars,
                   retryVars>>

\* ThreadPool::execute, the Receiver is gone: send returns Err, unwrap panics.
ExecutePanic ==
    /\ pool = "live"
    /\ ~callerPanicked
    /\ nexec < MaxJobs
    /\ ~ReceiverAlive
    /\ nexec' = nexec + 1
    /\ callerPanicked' = TRUE
    /\ UNCHANGED <<pool, size, senderOpen, queue, mutex, poisoned, wpc, wjob, handle,
                   joins, accepted, started, ranBy, finished, dropIdx, pendingAtDrop>>
    /\ UNCHANGED <<scenario, actorVars, cacheVars, counterVars, psumVars, lruVars,
                   retryVars>>

\* Worker loop, `receiver.lock().unwrap()`: take the mutex; a poisoned mutex
\* makes unwrap panic, which drops the guard inside the Err and ends the thread.
WLock(w) ==
    /\ wpc[w] = "lock"
    /\ mutex = NoOne
    /\ IF poisoned
         THEN /\ wpc' = [wpc EXCEPT ![w] = "panicked"]
              /\ UNCHANGED mutex
         ELSE /\ wpc' = [wpc EXCEPT ![w] = "recv"]
              /\ mutex' = w
    /\ UNCHANGED <<pool, size, senderOpen, queue, poisoned, wjob, handle, joins, nexec,
                   accepted, started, ranBy, finished, dropIdx, pendingAtDrop,
                   callerPanicked>>
    /\ UNCHANGED <<scenario, actorVars, cacheVars, counterVars, psumVars, lruVars,
                   retryVars>>

\* Worker loop, `.recv()` returns Ok(job): the guard is a temporary of the
\* `let` statement, so the mutex is released before `job()` is invoked.
WRecvOk(w) ==
    /\ wpc[w] = "recv"
    /\ mutex = w
    /\ queue # <<>>
    /\ LET job == ChanFront(queue) IN
         /\ wjob' = [wjob EXCEPT ![w] = job]
         /\ started' = [started EXCEPT ![job] = @ + 1]
         /\ ranBy' = ranBy \cup {w}
    /\ queue' = ChanRest(queue)
    /\ mutex' = GuardAfterRecv(w)
    /\ wpc' = [wpc EXCEPT ![w] = "run"]
    /\ UNCHANGED <<pool, size, senderOpen, poisoned, handle, joins, nexec, accepted,
                   finished, dropIdx, pendingAtDrop, callerPanicked>>
    /\ UNCHANGED <<scenario, actorVars, cacheVars, counterVars, psumVars, lruVars,
                   retryVars>>

\* Worker loop, `.recv()` returns Err: channel closed and drained; break.
WRecvErr(w) ==
    /\ wpc[w] = "recv"
    /\ mutex = w
    /\ queue = <<>>
    /\ ~senderOpen
    /\ mutex' = NoOne
    /\ wpc' = [wpc EXCEPT ![w] = "exited"]
    /\ UNCHANGED <<pool, size, senderOpen, queue, poisoned, wjob, handle, joins, nexec,
                   accepted, started, ranBy, finished, dropIdx, pendingAtDrop,
                   callerPanicked>>
    /\ UNCHANGED <<scenario, actorVars, cacheVars, counterVars, psumVars, lruVars,
                   retryVars>>

\* `job()` returns: back to the top of the loop; a guard still alive in the
\* loop body would be dropped here.
JobReturn(w) ==
    /\ wpc[w] = "run"
    /\ finished' = [finished EXCEPT ![wjob[w]] = @ + 1]
    /\ wjob' = [wjob EXCEPT ![w] = 0]
    /\ wpc' = [wpc EXCEPT ![w] = "lock"]
    /\ mutex' = IF mutex = w THEN NoOne ELSE mutex
    /\ UNCHANGED <<pool, size, senderOpen, queue, poisoned, handle, joins, nexec,
                   accepted, started, ranBy, dropIdx, pendingAtDrop, callerPanicked>>
    /\ UNCHANGED <<scenario, actorVars, cacheVars, counterVars, psumVars, lruVars,
                   retryVars>>

\* `job()` panics: nothing in the loop catches it, the thread unwinds and
\* ends; a guard held at that point would be poisoned and released.
JobPanic(w) ==
    /\ wpc[w] = "run"
    /\ wjob' = [wjob EXCEPT ![w] = 0]
    /\ wpc' = [wpc EXCEPT ![w] = "panicked"]
    /\ poisoned' = (poisoned \/ HoldsGuard(w))
    /\ mutex' = IF mutex = w THEN NoOne ELSE mutex
    /\ UNCHANGED <<pool, size, senderOpen, queue, handle, joins, nexec, accepted,
                   started, ranBy, finished, dropIdx, pendingAtDrop, callerPanicked>>
    /\ UNCHANGED <<scenario, actorVars, cacheVars, counterVars, psumVars, lruVars,
                   retryVars>>

\* Drop for ThreadPool, up to the loop: the sender is dropped first.
DropBegin ==
    /\ pool = "live"
    /\ pool' = "dropping"
    /\ senderOpen' = DropSender(senderOpen)
    /\ dropIdx' = 0
    /\ pendingAtDrop' = Len(queue)
    /\ UNCHANGED <<size, queue, mutex, poisoned, wpc, wjob, handle, joins, nexec,
                   accepted, started, ranBy, finished, callerPanicked>>
    /\ UNCHANGED <<scenario, actorVars, cacheVars, counterVars, psumVars, lruVars,
                   retryVars>>

\* One iteration of Drop's loop: `handle.take()` then `join()`, which blocks
\* until the worker thread has ended; its result is discarded.
DropJoin ==
    /\ pool = "dropping"
    /\ dropIdx < size
    /\ IF handle[dropIdx]
         THEN /\ JoinReturns(dropIdx)
              /\ handle' = [handle EXCEPT ![dropIdx] = FALSE]
              /\ joins' = [joins EXCEPT ![dropIdx] = @ + 1]
         ELSE UNCHANGED <<handle, joins>>
    /\ dropIdx' = dropIdx + 1
    /\ UNCHANGED <<pool, size, senderOpen, queue, mutex, poisoned, wpc, wjob, nexec,
                   accepted, started, ranBy, finished, pendingAtDrop, callerPanicked>>
    /\ UNCHANGED <<scenario, actorVars, cacheVars, counterVars, psumVars, lruVars,
                   retryVars>>

\* Drop for ThreadPool returns after the last iteration.
DropReturn ==
    /\ pool = "dropping"
    /\ dropIdx = size
    /\ pool' = "dropped"
    /\ UNCHANGED <<size, senderOpen, queue, mutex, poisoned, wpc, wjob, handle, joins,
                   nexec, accepted, started, ranBy, finished, dropIdx, pendingAtDrop,
                   callerPanicked>>
    /\ UNCHANGED <<scenario, actorVars, cacheVars, counterVars, psumVars, lruVars,
                   retryVars>>

\* ------------------------------------------------------------------- actor
\* enum Message<T> { Work(T), Stop }
Work(item) == [tag |-> "Work", item |-> item]

StopMsg == [tag |-> "Stop"]

\* (the Receiver is kept by the handle and outlives the thread)
ReceiverKeptByHandle == apc # "unspawned"

\* The mailbox Receiver is owned by the actor thread's closure.
MailboxReceiverAlive == apc \in {"recv", "proc"}

\* The only Sender is the field Actor.sender: it lives as long as the handle.
MailboxSenderAlive == actor \in {"live", "stopping"}

\* Threads that hold a shared reference to the Actor and call send.
Producers == 1 .. MaxProducers

\* (the processor is dispatched to another thread and the loop goes on)
ActorIdleOrBusy == apc \in {"recv", "proc"}

\* The actor thread is at `receiver.recv()`: `processor(item)` is an ordinary
\* call in the loop body, so the loop is not here while a call is running.
ActorIdle == apc = "recv"

\* The actor thread's closure has ended (normally or by unwinding).
ActorThreadEnded == apc \in {"exited", "panicked"}

ActorInit ==
    /\ actor = "none"
    /\ mailbox = <<>>
    /\ apc = "unspawned"
    /\ acur = 0
    /\ nsend = 0
    /\ sent = <<>>
    /\ refused = {}
    /\ processed = <<>>
    /\ completed = {}
    /\ stopSent = <<>>
    /\ ajoined = 0
    /\ inflight = {}
    /\ producerOf = [i \in 1 .. MaxMsgs |-> 0]

\* Actor::new: create the channel, spawn the thread, return the handle.
ActorNew ==
    /\ scenario = "actor"
    /\ actor = "none"
    /\ actor' = "live"
    /\ apc' = "recv"
    /\ UNCHANGED <<mailbox, acur, nsend, sent, refused, processed, completed, stopSent,
                   ajoined>>
    /\ UNCHANGED <<inflight, producerOf>>
    /\ UNCHANGED <<scenario, poolVars, cacheVars, counterVars, psumVars, lruVars,
                   retryVars>>

\* Actor::send returns Ok: Work(item) is buffered in the mailbox.
SendOk ==
    /\ actor = "live"
    /\ nsend < MaxMsgs
    /\ MailboxReceiverAlive
    /\ ChanCanSend(mailbox)
    /\ nsend' = nsend + 1
    /\ mailbox' = ChanSend(mailbox, Work(nsend + 1))
    /\ sent' = Append(sent, nsend + 1)
    /\ UNCHANGED <<actor, apc, acur, refused, processed, completed, stopSent, ajoined>>
    /\ \E p \in Producers : producerOf' = [producerOf EXCEPT ![nsend + 1] = p]
    /\ UNCHANGED inflight
    /\ UNCHANGED <<scenario, poolVars, cacheVars, counterVars, psumVars, lruVars,
                   retryVars>>

\* Actor::send returns Err(SendError): the actor thread, and with it the
\* Receiver, is gone.
SendErr ==
    /\ actor = "live"
    /\ nsend < MaxMsgs
    /\ ~MailboxReceiverAlive
    /\ nsend' = nsend + 1
    /\ refused' = refused \cup {nsend + 1}
    /\ UNCHANGED <<actor, mailbox, apc, acur, sent, processed, completed, stopSent,
                   ajoined>>
    /\ \E p \in Producers : producerOf' = [producerOf EXCEPT ![nsend + 1] = p]
    /\ UNCHANGED inflight
    /\ UNCHANGED <<scenario, poolVars, cacheVars, counterVars, psumVars, lruVars,
                   retryVars>>

\* Actor loop: recv returns Ok(Work(item)); the processor is invoked on it.
ARecvWork ==
    /\ ActorIdle
    /\ mailbox # <<>>
    /\ ChanFront(mailbox).tag = "Work"
    /\ acur' = ChanFront(mailbox).item
    /\ processed' = Append(processed, ChanFront(mailbox).item)
    /\ mailbox' = ChanRest(mailbox)
    /\ apc' = "proc"
    /\ UNCHANGED <<actor, nsend, sent, refused, completed, stopSent, ajoined>>
    /\ inflight' = inflight \cup {ChanFront(mailbox).item}
    /\ UNCHANGED producerOf
    /\ UNCHANGED <<scenario, poolVars, cacheVars, counterVars, psumVars, lruVars,
                   retryVars>>

\* Actor loop: recv returns Ok(Stop); break, the closure ends.
ARecvStop ==
    /\ apc = "recv"
    /\ mailbox # <<>>
    /\ ChanFront(mailbox).tag = "Stop"
    /\ mailbox' = ChanRest(mailbox)
    /\ apc' = "exited"
    /\ UNCHANGED <<actor, acur, nsend, sent, refused, processed, completed, stopSent,
                   ajoined>>
    /\ UNCHANGED <<inflight, producerOf>>
    /\ UNCHANGED <<scenario, poolVars, cacheVars, counterVars, psumVars, lruVars,
                   retryVars>>

\* Actor loop: recv returns Err (mailbox empty, sender dropped); the
\* `while let` ends.
ARecvErr ==
    /\ apc = "recv"
    /\ mailbox = <<>>
    /\ ~MailboxSenderAlive
    /\ apc' = "exited"
    /\ UNCHANGED <<actor, mailbox, acur, nsend, sent, refused, processed, completed,
                   stopSent, ajoined>>
    /\ UNCHANGED <<inflight, producerOf>>
    /\ UNCHANGED <<scenario, poolVars, cacheVars, counterVars, psumVars, lruVars,
                   retryVars>>

\* `processor(item)` returns: next iteration of the loop.
ProcReturn ==
    /\ apc = "proc"
    /\ completed' = completed \cup {acur}
    /\ acur' = 0
    /\ apc' = "recv"
    /\ UNCHANGED <<actor, mailbox, nsend, sent, refused, processed, stopSent, ajoined>>
    /\ inflight' = inflight \ {acur}
    /\ UNCHANGED producerOf
    /\ UNCHANGED <<scenario, poolVars, cacheVars, counterVars, psumVars, lruVars,
                   retryVars>>

\* `processor(item)` panics: nothing catches it, the actor thread unwinds.
ProcPanic ==
    /\ apc = "proc"
    /\ acur' = 0
    /\ apc' = "panicked"
    /\ UNCHANGED <<actor, mailbox, nsend, sent, refused, processed, completed, stopSent,
                   ajoined>>
    /\ inflight' = inflight \ {acur}
    /\ UNCHANGED producerOf
    /\ UNCHANGED <<scenario, poolVars, cacheVars, counterVars, psumVars, lruVars,
                   retryVars>>

\* Actor::stop, first statement: send Stop, discarding the Result.
StopSend ==
    /\ actor = "live"
    /\ actor' = "stopping"
    /\ stopSent' = sent
    /\ mailbox' = IF MailboxReceiverAlive THEN ChanSend(mailbox, StopMsg) ELSE mailbox
    /\ UNCHANGED <<apc, acur, nsend, sent, refused, processed, completed, ajoined>>
    /\ UNCHANGED <<inflight, producerOf>>
    /\ UNCHANGED <<scenario, poolVars, cacheVars, counterVars, psumVars, lruVars,
                   retryVars>>

\* Actor::stop, second statement: join blocks until the thread has ended,
\* its Result is discarded, stop returns and the handle is gone.
StopJoin ==
    /\ actor = "stopping"
    /\ ActorThreadEnded
    /\ actor' = "stopped"
    /\ ajoined' = ajoined + 1
    /\ UNCHANGED <<mailbox, apc, acur, nsend, sent, refused, processed, completed,
                   stopSent>>
    /\ UNCHANGED <<inflight, producerOf>>
    /\ UNCHANGED <<scenario, poolVars, cacheVars, counterVars, psumVars, lruVars,
                   retryVars>>

\* The Actor value goes out of scope without stop(): the sender is dropped
\* and the JoinHandle is dropped, which detaches the thread.
ActorDrop ==
    /\ actor = "live"
    /\ actor' = "dropped"
    /\ UNCHANGED <<mailbox, apc, acur, nsend, sent, refused, processed, completed,
                   stopSent, ajoined>>
    /\ UNCHANGED <<inflight, producerOf>>
    /\ UNCHANGED <<scenario, poolVars, cacheVars, counterVars, psumVars, lruVars,
                   retryVars>>

\* ------------------------------------------------------------------- cache
CThreads == 1 .. MaxCacheThreads
Keys     == 1 .. MaxKeys
Vals     == 1 .. MaxVals

\* Option::None as the result of a lookup / no entry for the key.
Absent == 0

\* What a lookup would see of an entry that map.insert is still writing.
Torn == -1

\* (readers are let in while a writer holds the lock)
CanReadAlways == TRUE

\* RwLock::read is granted when no writer holds the lock.
CanRead == writers = {}

\* (a writer is let in while readers hold the lock)
CanWriteIgnoringReaders == writers = {}

\* RwLock::write is granted when nobody holds the lock.
CanWrite == writers = {} /\ readers = {}

\* (the poison flag is not looked at: the guard is handed out regardless)
LockResultIgnoringPoison(p) == TRUE

\* `read()` / `write()` return Ok(guard) unless the lock is poisoned; on
\* Err(PoisonError) the `unwrap()` panics.
LockResultOk(p) == ~p

\* `map.get(key).cloned()`
MapGet(m, t, k) == IF k \in t THEN Torn ELSE m[k]

\* (HashMap::entry(key).or_insert(value): an existing entry is kept)
MapInsertIfAbsent(m, k, v) == IF m[k] = Absent THEN [m EXCEPT ![k] = v] ELSE m

\* `map.insert(key, value)`: inserts or overwrites.
MapInsert(m, k, v) == [m EXCEPT ![k] = v]

CacheInit ==
    /\ cache = "none"
    /\ cmap = [k \in Keys |-> Absent]
    /\ torn = {}
    /\ readers = {}
    /\ writers = {}
    /\ cpc = [t \in CThreads |-> "idle"]
    /\ ckey = [t \in CThreads |-> 0]
    /\ cval = [t \in CThreads |-> 0]
    /\ committed = [k \in Keys |-> Absent]
    /\ lastGet = [key |-> 0, got |-> Absent, want |-> Absent]
    /\ rwPoisoned = FALSE
    /\ poisonFailures = {}

\* Cache::new: an empty map behind an RwLock.
CacheNew ==
    /\ scenario = "cache"
    /\ cache = "none"
    /\ cache' = "live"
    /\ UNCHANGED <<cmap, torn, readers, writers, cpc, ckey, cval, committed, lastGet>>
    /\ UNCHANGED <<rwPoisoned, poisonFailures>>
    /\ UNCHANGED <<scenario, poolVars, actorVars, counterVars, psumVars, lruVars,
                   retryVars>>

\* Cache::get, `self.data.read().unwrap()`: the read guard is acquired.
GetLock(t, k) ==
    /\ cache = "live"
    /\ cpc[t] = "idle"
    /\ CanRead
    /\ LockResultOk(rwPoisoned)
    /\ readers' = readers \cup {t}
    /\ cpc' = [cpc EXCEPT ![t] = "read"]
    /\ ckey' = [ckey EXCEPT ![t] = k]
    /\ UNCHANGED <<cache, cmap, torn, writers, cval, committed, lastGet>>
    /\ UNCHANGED <<rwPoisoned, poisonFailures>>
    /\ UNCHANGED <<scenario, poolVars, actorVars, counterVars, psumVars, lruVars,
                   retryVars>>

\* Cache::get, `map.get(key).cloned()` and return: the guard is dropped.
GetReturn(t) ==
    /\ cpc[t] = "read"
    /\ lastGet' = [key |-> ckey[t], got |-> MapGet(cmap, torn, ckey[t]),
                   want |-> committed[ckey[t]]]
    /\ readers' = readers \ {t}
    /\ cpc' = [cpc EXCEPT ![t] = "idle"]
    /\ ckey' = [ckey EXCEPT ![t] = 0]
    /\ UNCHANGED <<cache, cmap, torn, writers, cval, committed>>
    /\ UNCHANGED <<rwPoisoned, poisonFailures>>
    /\ UNCHANGED <<scenario, poolVars, actorVars, counterVars, psumVars, lruVars,
                   retryVars>>

\* Cache::insert, `self.data.write().unwrap()`: the write guard is acquired.
InsertLock(t, k, v) ==
    /\ cache = "live"
    /\ cpc[t] = "idle"
    /\ CanWrite
    /\ LockResultOk(rwPoisoned)
    /\ writers' = writers \cup {t}
    /\ cpc' = [cpc EXCEPT ![t] = "wlocked"]
    /\ ckey' = [ckey EXCEPT ![t] = k]
    /\ cval' = [cval EXCEPT ![t] = v]
    /\ UNCHANGED <<cache, cmap, torn, readers, committed, lastGet>>
    /\ UNCHANGED <<rwPoisoned, poisonFailures>>
    /\ UNCHANGED <<scenario, poolVars, actorVars, counterVars, psumVars, lruVars,
                   retryVars>>

\* Cache::insert, `map.insert(key, value)` has begun writing the entry.
InsertWrite(t) ==
    /\ cpc[t] = "wlocked"
    /\ torn' = torn \cup {ckey[t]}
    /\ cpc' = [cpc EXCEPT ![t] = "writing"]
    /\ UNCHANGED <<cache, cmap, readers, writers, ckey, cval, committed, lastGet>>
    /\ UNCHANGED <<rwPoisoned, poisonFailures>>
    /\ UNCHANGED <<scenario, poolVars, actorVars, counterVars, psumVars, lruVars,
                   retryVars>>

\* Cache::insert, `map.insert` is complete and insert returns: the guard is
\* dropped.
InsertReturn(t) ==
    /\ cpc[t] = "writing"
    /\ cmap' = MapInsert(cmap, ckey[t], cval[t])
    /\ torn' = torn \ {ckey[t]}
    /\ committed' = [committed EXCEPT ![ckey[t]] = cval[t]]
    /\ writers' = writers \ {t}
    /\ cpc' = [cpc EXCEPT ![t] = "idle"]
    /\ ckey' = [ckey EXCEPT ![t] = 0]
    /\ cval' = [cval EXCEPT ![t] = 0]
    /\ UNCHANGED <<cache, readers, lastGet>>
    /\ UNCHANGED <<rwPoisoned, poisonFailures>>
    /\ UNCHANGED <<scenario, poolVars, actorVars, counterVars, psumVars, lruVars,
                   retryVars>>

\* Cache::insert panics while it holds the write guard (the key's Hash or Eq,
\* or the drop of the replaced value, panics inside `map.insert`): unwinding
\* drops the guard, which poisons the RwLock; an entry that was being written
\* stays as it is.
InsertPanic(t) ==
    /\ cpc[t] \in {"wlocked", "writing"}
    /\ rwPoisoned' = TRUE
    /\ writers' = writers \ {t}
    /\ cpc' = [cpc EXCEPT ![t] = "panicked"]
    /\ ckey' = [ckey EXCEPT ![t] = 0]
    /\ cval' = [cval EXCEPT ![t] = 0]
    /\ UNCHANGED <<cache, cmap, torn, readers, committed, lastGet, poisonFailures>>
    /\ UNCHANGED <<scenario, poolVars, actorVars, counterVars, psumVars, lruVars,
                   retryVars>>

\* Cache::get on a poisoned lock: `read()` returns Err, `unwrap()` panics in
\* the caller before the key is looked at; the guard inside the error is
\* dropped, the map is not read.
GetPoisoned(t) ==
    /\ cache = "live"
    /\ cpc[t] = "idle"
    /\ CanRead
    /\ ~LockResultOk(rwPoisoned)
    /\ cpc' = [cpc EXCEPT ![t] = "panicked"]
    /\ poisonFailures' = poisonFailures \cup {"get"}
    /\ UNCHANGED <<cache, cmap, torn, readers, writers, ckey, cval, committed, lastGet,
                   rwPoisoned>>
    /\ UNCHANGED <<scenario, poolVars, actorVars, counterVars, psumVars, lruVars,
                   retryVars>>

\* Cache::insert on a poisoned lock: `write()` returns Err, `unwrap()` panics
\* in the caller before key and value are looked at; the map is not written.
InsertPoisoned(t) ==
    /\ cache = "live"
    /\ cpc[t] = "idle"
    /\ CanWrite
    /\ ~LockResultOk(rwPoisoned)
    /\ cpc' = [cpc EXCEPT ![t] = "panicked"]
    /\ poisonFailures' = poisonFailures \cup {"insert"}
    /\ UNCHANGED <<cache, cmap, torn, readers, writers, ckey, cval, committed, lastGet,
                   rwPoisoned>>
    /\ UNCHANGED <<scenario, poolVars, actorVars, counterVars, psumVars, lruVars,
                   retryVars>>

CacheNext ==
    \/ CacheNew
    \/ \E t \in CThreads, k \in Keys : GetLock(t, k)
    \/ \E t \in CThreads : GetReturn(t)
    \/ \E t \in CThreads, k \in Keys, v \in Vals : InsertLock(t, k, v)
    \/ \E t \in CThreads : InsertWrite(t)
    \/ \E t \in CThreads : InsertReturn(t)
    \/ \E t \in CThreads : InsertPanic(t)
    \/ \E t \in CThreads : GetPoisoned(t)
    \/ \E t \in CThreads : InsertPoisoned(t)

\* ----------------------------------------------------------------- counter
KThreads == 1 .. MaxCounterThreads

\* AtomicUsize::fetch_add returns the value before the addition ...
FetchAddResult(c) == c

\* (the addition is lost, as with a separate load and store that raced)
LostUpdateStore(c) == c

\* ... and stores the value plus one, in one atomic step.
FetchAddStore(c) == c + 1

CounterInit ==
    /\ counter = "none"
    /\ count = 0
    /\ kcalls = [t \in KThreads |-> 0]
    /\ returned = <<>>
    /\ finalGet = -1

\* Counter::new
CounterNew ==
    /\ scenario = "counter"
    /\ counter = "none"
    /\ counter' = "live"
    /\ count' = 0
    /\ UNCHANGED <<kcalls, returned, finalGet>>
    /\ UNCHANGED <<scenario, poolVars, actorVars, cacheVars, psumVars, lruVars,
                   retryVars>>

\* Counter::increment called by thread t: `self.count.fetch_add(1, SeqCst)`.
Increment(t) ==
    /\ counter = "live"
    /\ kcalls[t] < MaxIncs
    /\ kcalls' = [kcalls EXCEPT ![t] = @ + 1]
    /\ returned' = Append(returned, [by |-> t, val |-> FetchAddResult(count)])
    /\ count' = FetchAddStore(count)
    /\ UNCHANGED <<counter, finalGet>>
    /\ UNCHANGED <<scenario, poolVars, actorVars, cacheVars, psumVars, lruVars,
                   retryVars>>

\* All threads have made their calls and were joined; Counter::get:
\* `self.count.load(SeqCst)`.
CounterGet ==
    /\ counter = "live"
    /\ \A t \in KThreads : kcalls[t] = MaxIncs
    /\ counter' = "joined"
    /\ finalGet' = count
    /\ UNCHANGED <<count, kcalls, returned>>
    /\ UNCHANGED <<scenario, poolVars, actorVars, cacheVars, psumVars, lruVars,
                   retryVars>>

CounterNext ==
    \/ CounterNew
    \/ \E t \in KThreads : Increment(t)
    \/ CounterGet

\* ------------------------------------------------------------ parallel_sum
\* The slices tried: length n, contents number g.
Gen(n, g) == [i \in 1 .. n |-> (i * g) % 5]

\* The loop of `iter().sum()`: the elements of d from index i on are added,
\* first to last, to the accumulator (eight per step, and the accumulator
\* is evaluated at each step, which keeps the evaluation shallow).
RECURSIVE SumLoop(_, _, _)
SumLoop(acc, d, i) ==
    IF acc < 0 \/ i > Len(d) THEN acc
    ELSE IF i + 7 > Len(d) THEN SumLoop(acc + d[i], d, i + 1)
    ELSE SumLoop(acc + d[i] + d[i + 1] + d[i + 2] + d[i + 3]
                     + d[i + 4] + d[i + 5] + d[i + 6] + d[i + 7], d, i + 8)

\* `iter().sum()`
IterSum(d) == SumLoop(0, d, 1)

\* The length below which parallel_sum adds up sequentially.
Threshold == 100

\* (the slice of length Threshold is still summed sequentially)
IsSmallInclusive(n) == n <= Threshold

\* `data.len() < 100`
IsSmall(n) == n < Threshold

\* `data.len() / 2`
Mid(n) == n \div 2

\* `data.split_at(mid)`, first part.
SplitLeft(d, mid) == SubSeq(d, 1, mid)

\* (the second part starts one element late)
SplitRightSkipping(d, mid) == SubSeq(d, mid + 2, Len(d))

\* `data.split_at(mid)`, second part.
SplitRight(d, mid) == SubSeq(d, mid + 1, Len(d))

\* (the scoped thread splits its part again and spawns a thread of its own)
ChildSpawnsAgain(d) == 1

\* Threads spawned by the scoped thread's closure `left.iter().sum()`: it is
\* a plain sum, not a call of parallel_sum.
ChildSpawns(d) == 0

\* (the result is taken without waiting for the scoped thread)
JoinNoWait == TRUE

\* `left_handle.join()` returns once the scoped thread has ended.
ChildJoinable == childpc = "done"

PSumInit ==
    /\ ppc = "none"
    /\ data = <<>>
    /\ left = <<>>
    /\ right = <<>>
    /\ childpc = "unspawned"
    /\ childJoined = FALSE
    /\ leftSum = 0
    /\ rightSum = 0
    /\ result = 0
    /\ spawns = 0
    /\ depth = 0

\* parallel_sum up to the spawn: a small slice is summed and returned at
\* once; otherwise the slice is split and the scoped thread is spawned.
PSumCall ==
    /\ scenario = "psum"
    /\ ppc = "none"
    /\ \E n \in 0 .. MaxLen, g \in 1 .. MaxGen :
          /\ data' = Gen(n, g)
          /\ IF IsSmall(n)
               THEN /\ result' = IterSum(Gen(n, g))
                    /\ ppc' = "returned"
                    /\ UNCHANGED <<left, right, childpc, spawns, depth>>
               ELSE /\ left' = SplitLeft(Gen(n, g), Mid(n))
                    /\ right' = SplitRight(Gen(n, g), Mid(n))
                    /\ childpc' = "running"
                    /\ spawns' = spawns + 1
                    /\ depth' = 1
                    /\ ppc' = "right"
                    /\ UNCHANGED result
    /\ UNCHANGED <<childJoined, leftSum, rightSum>>
    /\ UNCHANGED <<scenario, poolVars, actorVars, cacheVars, counterVars, lruVars,
                   retryVars>>

\* The scoped thread: `left.iter().sum::<usize>()`.
ChildRun ==
    /\ childpc = "running"
    /\ leftSum' = IterSum(left)
    /\ childpc' = "done"
    /\ spawns' = spawns + ChildSpawns(left)
    /\ depth' = depth + ChildSpawns(left)
    /\ UNCHANGED <<ppc, data, left, right, childJoined, rightSum, result>>
    /\ UNCHANGED <<scenario, poolVars, actorVars, cacheVars, counterVars, lruVars,
                   retryVars>>

\* The calling thread: `right.iter().sum()`.
MainRight ==
    /\ ppc = "right"
    /\ rightSum' = IterSum(right)
    /\ ppc' = "join"
    /\ UNCHANGED <<data, left, right, childpc, childJoined, leftSum, result, spawns,
                   depth>>
    /\ UNCHANGED <<scenario, poolVars, actorVars, cacheVars, counterVars, lruVars,
                   retryVars>>

\* `left_handle.join().unwrap() + right_sum`, end of the scope, return.
PSumJoin ==
    /\ ppc = "join"
    /\ ChildJoinable
    /\ childJoined' = TRUE
    /\ result' = leftSum + rightSum
    /\ ppc' = "returned"
    /\ UNCHANGED <<data, left, right, childpc, leftSum, rightSum, spawns, depth>>
    /\ UNCHANGED <<scenario, poolVars, actorVars, cacheVars, counterVars, lruVars,
                   retryVars>>

PSumNext ==
    \/ PSumCall
    \/ ChildRun
    \/ MainRight
    \/ PSumJoin

\* ---------------------------------------------------------------- LRUCache
LruKeys == 1 .. MaxLruKeys
LruVals == 1 .. MaxLruVals

\* `order.retain(|k| k != key)`
Retain(q, key) == SelectSeq(q, LAMBDA k : k # key)

\* `order.push_front(key)`
PushFront(q, key) == <<key>> \o q

\* `order.pop_back()`: the key at the back ...
Back(q) == q[Len(q)]

\* ... and the deque without it.
PopBack(q) == SubSeq(q, 1, Len(q) - 1)

\* `map.len()`
MapLen(m) == Cardinality({k \in LruKeys : m[k] # Absent})

\* `map.contains_key(key)`
ContainsKey(m, key) == m[key] # Absent

\* A use of key: it becomes the most recently used key.
Touch(q, key) == <<key>> \o SelectSeq(q, LAMBDA k : k # key)

LruInit ==
    /\ lru = "none"
    /\ capacity = 0
    /\ map = [k \in LruKeys |-> Absent]
    /\ order = <<>>
    /\ lruGot = Absent
    /\ recency = <<>>

\* LRUCache::new(capacity): empty map and deque; no check on capacity.
LruNew(c) ==
    /\ scenario = "lru"
    /\ lru = "none"
    /\ lru' = "live"
    /\ capacity' = c
    /\ UNCHANGED <<map, order, lruGot, recency>>
    /\ UNCHANGED <<scenario, poolVars, actorVars, cacheVars, counterVars, psumVars,
                   retryVars>>

\* LRUCache::get(key): a cached key is moved to the front of the order and
\* its value returned; for any other key None is returned, nothing changes.
LruGet(key) ==
    /\ lru = "live"
    /\ IF ContainsKey(map, key)
         THEN /\ order' = PushFront(Retain(order, key), key)
              /\ lruGot' = map[key]
              /\ recency' = Touch(recency, key)
         ELSE /\ lruGot' = Absent
              /\ UNCHANGED <<order, recency>>
    /\ UNCHANGED <<lru, capacity, map>>
    /\ UNCHANGED <<scenario, poolVars, actorVars, cacheVars, counterVars, psumVars,
                   retryVars>>

\* LRUCache::put(key, value): a cached key is overwritten and taken out of
\* the order; for a new key, when `map.len() >= capacity`, the key at the
\* back of the order (if there is one) is removed from order and map, then
\* the entry is inserted; in both cases the key is pushed to the front.
LruPut(key, value) ==
    /\ lru = "live"
    /\ IF ContainsKey(map, key)
         THEN /\ map' = [map EXCEPT ![key] = value]
              /\ order' = PushFront(Retain(order, key), key)
         ELSE IF MapLen(map) >= capacity /\ order # <<>>
                THEN /\ map' = [map EXCEPT ![Back(order)] = Absent, ![key] = value]
                     /\ order' = PushFront(PopBack(order), key)
                ELSE /\ map' = [map EXCEPT ![key] = value]
                     /\ order' = PushFront(order, key)
    /\ recency' = Touch(recency, key)
    /\ UNCHANGED <<lru, capacity, lruGot>>
    /\ UNCHANGED <<scenario, poolVars, actorVars, cacheVars, counterVars, psumVars,
                   retryVars>>

LruNext ==
    \/ \E c \in 0 .. MaxCapacity : LruNew(c)
    \/ \E key \in LruKeys : LruGet(key)
    \/ \E key \in LruKeys, value \in LruVals : LruPut(key, value)

\* -------------------------------------------------------------- with_retry
Outcomes == 1 .. MaxOutcomes

\* `let mut last_error = None`
NoError == 0

\* What one call of f returned.
OkOf(v) == [ok |-> TRUE, val |-> v]

ErrOf(e) == [ok |-> FALSE, val |-> e]

\* `100 * 2_u64.pow(attempt - 1)` milliseconds
Delay(a) == 100 * 2 ^ (a - 1)

\* `attempt < max_attempts`, and so does `1..=max_attempts` go on after a.
HasNextAttempt(a, m) == a < m

RetryInit ==
    /\ rpc = "none"
    /\ maxAttempts = 0
    /\ attempt = 0
    /\ lastError = NoError
    /\ retVal = 0
    /\ slept = <<>>
    /\ outcomes = <<>>

\* with_retry(f, max_attempts) up to the first call of f.  With an empty
\* range `1..=max_attempts` the loop body never runs and
\* `last_error.unwrap()` is applied to None, which panics.
RetryCall(m) ==
    /\ scenario = "retry"
    /\ rpc = "none"
    /\ maxAttempts' = m
    /\ lastError' = NoError
    /\ IF HasNextAttempt(0, m)
         THEN /\ attempt' = 1
              /\ rpc' = "call"
         ELSE /\ rpc' = "panicked"
              /\ UNCHANGED attempt
    /\ UNCHANGED <<retVal, slept, outcomes>>
    /\ UNCHANGED <<scenario, poolVars, actorVars, cacheVars, counterVars, psumVars,
                   lruVars>>

\* `f()` returns Ok(result): `return Ok(result)`.
AttemptOk(v) ==
    /\ rpc = "call"
    /\ outcomes' = Append(outcomes, OkOf(v))
    /\ retVal' = v
    /\ rpc' = "ok"
    /\ UNCHANGED <<maxAttempts, attempt, lastError, slept>>
    /\ UNCHANGED <<scenario, poolVars, actorVars, cacheVars, counterVars, psumVars,
                   lruVars>>

\* `f()` returns Err(e): the error is kept; before another attempt the
\* thread sleeps, after the last one `Err(last_error.unwrap())` is returned.
AttemptErr(e) ==
    /\ rpc = "call"
    /\ outcomes' = Append(outcomes, ErrOf(e))
    /\ lastError' = e
    /\ IF HasNextAttempt(attempt, maxAttempts)
         THEN /\ rpc' = "sleep"
              /\ UNCHANGED retVal
         ELSE /\ rpc' = "err"
              /\ retVal' = e
    /\ UNCHANGED <<maxAttempts, attempt, slept>>
    /\ UNCHANGED <<scenario, poolVars, actorVars, cacheVars, counterVars, psumVars,
                   lruVars>>

\* `std::thread::sleep(delay)` returns; next iteration of the loop.
RetrySleep ==
    /\ rpc = "sleep"
    /\ slept' = Append(slept, Delay(attempt))
    /\ attempt' = attempt + 1
    /\ rpc' = "call"
    /\ UNCHANGED <<maxAttempts, lastError, retVal, outcomes>>
    /\ UNCHANGED <<scenario, poolVars, actorVars, cacheVars, counterVars, psumVars,
                   lruVars>>

RetryNext ==
    \/ \E m \in 0 .. MaxAttempts : RetryCall(m)
    \/ \E v \in Outcomes : AttemptOk(v)
    \/ \E e \in Outcomes : AttemptErr(e)
    \/ RetrySleep

ActorNext ==
    \/ ActorNew
    \/ SendOk
    \/ SendErr
    \/ ARecvWork
    \/ ARecvStop
    \/ ARecvErr
    \/ ProcReturn
    \/ ProcPanic
    \/ StopSend
    \/ StopJoin
    \/ ActorDrop

PoolNext ==
    \/ \E n \in 0 .. MaxSize : New(n)
    \/ ExecuteOk
    \/ ExecutePanic
    \/ \E w \in WorkerIds : WLock(w)
    \/ \E w \in WorkerIds : WRecvOk(w)
    \/ \E w \in WorkerIds : WRecvErr(w)
    \/ \E w \in WorkerIds : JobReturn(w)
    \/ \E w \in WorkerIds : JobPanic(w)
    \/ DropBegin
    \/ DropJoin
    \/ DropReturn

Init ==
    /\ scenario \in {"pool", "actor", "cache", "counter", "psum", "lru", "retry"}
    /\ PoolInit
    /\ ActorInit
    /\ CacheInit
    /\ CounterInit
    /\ PSumInit
    /\ LruInit
    /\ RetryInit

Next == PoolNext \/ ActorNext \/ CacheNext \/ CounterNext \/ PSumNext \/ LruNext
           \/ RetryNext

Spec == Init /\ [][Next]_vars

\* Threads are scheduled by the OS; every job and every processor call
\* terminates (returns or panics); a blocked join resumes once its thread ended.
FairSpec ==
    /\ Spec
    /\ \A w \in WorkerIds :
         /\ WF_poolVars(WLock(w))
         /\ WF_poolVars(WRecvOk(w))
         /\ WF_poolVars(WRecvErr(w))
         /\ WF_poolVars(JobReturn(w) \/ JobPanic(w))
    /\ WF_poolVars(DropJoin)
    /\ WF_poolVars(DropReturn)
    /\ WF_actorVars(ARecvWork)
    /\ WF_actorVars(ARecvStop)
    /\ WF_actorVars(ARecvErr)
    /\ WF_actorVars(ProcReturn \/ ProcPanic)
    /\ WF_actorVars(StopJoin)
    /\ WF_psumVars(ChildRun)
    /\ WF_psumVars(MainRight)
    /\ WF_psumVars(PSumJoin)
    /\ WF_retryVars(RetrySleep)

\* ------------------------------------------------------------ thread pool claims
RECURSIVE SumTo(_, _)
SumTo(f, n) == IF n = 0 THEN 0 ELSE f[n] + SumTo(f, n - 1)

\* How often job j occurs in the buffer q.
Pending(q, j) == Cardinality({i \in 1 .. Len(q) : q[i] = j})

\* C1: when Drop of a pool of size >= 1 has returned, the number of job
\* executions equals the number N of jobs submitted with execute.
C1_DropWaitsForAllJobs ==
    (pool = "dropped" /\ size >= 1) => SumTo(started, MaxJobs) = Cardinality(accepted)

C3_TeardownTerminates ==
    /\ [](pool = "dropping" => ~senderOpen)
    /\ (pool = "dropping") ~>
          (pool = "dropped" /\ \A w \in WorkerIds : wpc[w] \notin {"lock", "recv", "run"})

\* Drop of a full-size pool has returned, and began with jobs still pending.
C3_Witness ==
    /\ pool = "dropped"
    /\ size = MaxSize
    /\ pendingAtDrop >= 2

\* C4: once Drop has returned no worker thread is alive, and every worker's
\* handle was taken and joined exactly once; no handle is ever joined twice.
C4_NoThreadAfterDrop ==
    /\ \A w \in WorkerIds : joins[w] <= 1
    /\ pool = "dropped" =>
         \A w \in WorkerIds :
            /\ wpc[w] \in {"unspawned", "exited", "panicked"}
            /\ w < size => (wpc[w] # "unspawned" /\ joins[w] = 1 /\ ~handle[w])

\* Drop of a full-size pool has returned after its workers ran jobs.
C4_Witness ==
    /\ pool = "dropped"
    /\ size = MaxSize
    /\ \A w \in WorkerIds : w \in ranBy
    /\ \E w \in WorkerIds : wpc[w] = "exited"

\* C5: a panicking job does not end the worker thread that ran it, and once
\* the pool is torn down every submitted job was invoked.
C5_PanicIsolated ==
    /\ \A w \in WorkerIds : wpc[w] # "panicked"
    /\ pool = "dropped" => \A j \in accepted : started[j] = 1
\* C6: from construction until teardown begins the number of live worker
\* threads servicing the queue equals the size the pool was built with.
C6_WorkerCountFixed ==
    pool = "live" =>
        Cardinality({w \in WorkerIds : wpc[w] \in {"lock", "recv", "run"}}) = size

\* C7: no pool handle with zero workers is ever produced.
C7_ZeroSizeRejected ==
    pool # "none" => size >= 1

\* C8: execute and send never block the caller: while the handle exists the
\* call can always take its step, and as long as the receiving end exists that
\* step is the enqueue, whatever is pending and however busy the consumers are.
C8_EnqueueNeverBlocks ==
    /\ (pool = "live" /\ ~callerPanicked /\ nexec < MaxJobs) =>
          /\ ENABLED (ExecuteOk \/ ExecutePanic)
          /\ (\E w \in WorkerIds : wpc[w] \in {"lock", "recv", "run"}) => ENABLED ExecuteOk
    /\ (actor = "live" /\ nsend < MaxMsgs) =>
          /\ ENABLED (SendOk \/ SendErr)
          /\ apc \in {"recv", "proc"} => ENABLED SendOk

\* Every worker of a full-size pool is running a job, jobs are pending, and
\* execute has been called and can be called again.
C8_Witness ==
    /\ pool = "live"
    /\ size = MaxSize
    /\ \A w \in WorkerIds : wpc[w] = "run"
    /\ Len(queue) >= 1
    /\ nexec < MaxJobs

\* C9: the items the processor was invoked on are, in order, a prefix of the
\* items sent.
C9_ActorFifo ==
    /\ Len(processed) <= Len(sent)
    /\ \A i \in 1 .. Len(processed) : processed[i] = sent[i]

\* Two items were processed while a third, sent behind them, waits.
C9_Witness ==
    /\ Len(processed) >= 2
    /\ Len(mailbox) >= 1
    /\ apc = "proc"

\* C10: when stop() has returned, every item sent before stop() was called
\* has been fully processed and the actor thread has ended and been joined.
C10_StopDrains ==
    actor = "stopped" =>
        /\ \A i \in 1 .. Len(stopSent) : stopSent[i] \in completed
        /\ apc \in {"exited", "panicked"}
        /\ ajoined = 1

\* C10, second half: under fair scheduling stop() eventually returns.
C10_StopReturns == (actor = "stopping") ~> (actor = "stopped")

\* C22: execute never fails in its caller, and a job whose execute returned
\* normally is never stranded: as long as it has not been invoked it is
\* buffered in a queue that some live worker still receives from.
C22_ExecuteNeverFails ==
    /\ ~callerPanicked
    /\ \A j \in accepted :
          started[j] = 0 => (Pending(queue, j) = 1 /\ \E w \in WorkerIds : Alive(w))

\* C24: jobs are numbered in the order in which the caller submitted them.
\* A job is taken from the queue only after every job submitted before it
\* was taken, and the buffer holds the waiting jobs in submission order.
C24_PoolFifo ==
    /\ \A a, b \in Jobs : (a < b /\ started[b] >= 1) => started[a] >= 1
    /\ \A i, j \in 1 .. Len(queue) : i < j => queue[i] < queue[j]
    /\ \A a, b \in Jobs : (started[a] >= 1 /\ Pending(queue, b) >= 1) => a < b

\* Two workers took the first two jobs in order, the second job has returned
\* while the first is still running, and a later job waits in the queue.
C24_Witness ==
    /\ \E v, w \in WorkerIds : v # w /\ {v, w} \subseteq ranBy /\ wjob[v] = 1
    /\ finished[2] = 1
    /\ finished[1] = 0
    /\ Len(queue) >= 1

\* C28: the receiver mutex is held only by a worker that is waiting for or
\* taking a job, never by one that runs a job; so a worker at the top of its
\* loop gets the mutex whenever no worker is waiting in recv, whatever jobs
\* the others are running, and a worker in recv takes the next queued job.
C28_GuardReleasedBeforeJob ==
    /\ \A w \in WorkerIds : wpc[w] = "run" => mutex # w
    /\ \A w \in WorkerIds : mutex = w <=> wpc[w] = "recv"
    /\ \A w \in WorkerIds :
          (wpc[w] = "lock" /\ \A v \in WorkerIds : wpc[v] # "recv") => ENABLED WLock(w)
    /\ \A w \in WorkerIds : (wpc[w] = "recv" /\ queue # <<>>) => ENABLED WRecvOk(w)

\* Two jobs were submitted to a pool of two workers and both are running at
\* the same time, each on its own worker, with the mutex free.
C28_Witness ==
    /\ size = 2
    /\ nexec = 2
    /\ queue = <<>>
    /\ mutex = NoOne
    /\ \E v, w \in WorkerIds : v # w /\ wjob[v] = 1 /\ wjob[w] = 2
    /\ \A j \in {1, 2} : started[j] = 1 /\ finished[j] = 0

\* C29: the receiver mutex is never poisoned, whatever jobs panic; a worker at
\* the top of its loop can take the free mutex, and `lock().unwrap()` never
\* fails: a worker leaves the top of its loop only into recv.
C29_JobPanicNeverPoisons ==
    /\ [](~poisoned)
    /\ [](\A w \in WorkerIds : (wpc[w] = "lock" /\ mutex = NoOne) => ENABLED WLock(w))
    /\ [][\A w \in WorkerIds :
            (wpc[w] = "lock" /\ wpc'[w] # "lock") => (wpc'[w] = "recv" /\ mutex' = w)]_vars

\* A worker's job has panicked; another worker, which has run a job to its
\* end, is at the top of its loop with the mutex free and a job waiting.
C29_Witness ==
    /\ ~poisoned
    /\ mutex = NoOne
    /\ queue # <<>>
    /\ \E v, w \in WorkerIds :
          /\ wpc[v] = "panicked"
          /\ wpc[w] = "lock"
          /\ w \in ranBy
          /\ \E j \in Jobs : finished[j] = 1

\* ------------------------------------------------------------------ actor claims
\* C11: at most one processor invocation is in progress at any time, also
\* when several threads send to the same actor.
C11_OneAtATime ==
    /\ Cardinality(inflight) <= 1
    /\ inflight # {} => (apc = "proc" /\ inflight = {acur})

\* An item is being processed while another waits in the mailbox, the items
\* coming from two different sending threads.
C11_Witness ==
    /\ Cardinality(inflight) = 1
    /\ Len(mailbox) >= 1
    /\ \E i, j \in 1 .. MaxMsgs :
          /\ producerOf[i] # 0
          /\ producerOf[j] # 0
          /\ producerOf[i] # producerOf[j]

\* The items of a sequence.
Range(q) == {q[i] : i \in 1 .. Len(q)}

\* C12: once the actor thread has ended send fails and cannot succeed, a
\* send succeeds only while the thread (and so the Receiver) exists, and an
\* item whose send failed is never buffered nor processed.
C12_SendFailsAfterThreadEnd ==
    /\ (actor = "live" /\ nsend < MaxMsgs /\ apc \in {"exited", "panicked"}) =>
          (ENABLED SendErr /\ ~ENABLED SendOk)
    /\ ENABLED SendOk => apc \in {"recv", "proc"}
    /\ \A i \in refused :
          /\ i \notin Range(processed)
          /\ i \notin Range(sent)
          /\ i \notin completed
          /\ \A n \in 1 .. Len(mailbox) : mailbox[n] # Work(i)

\* A send has failed on an actor whose thread died while processing.
C12_Witness ==
    /\ refused # {}
    /\ apc = "panicked"
    /\ Len(processed) >= 1

\* C13: once the Actor handle has ceased to exist (consumed by stop() or
\* gone out of scope) the actor thread is no longer alive.
C13_NoThreadAfterHandle ==
    actor \in {"stopped", "dropped"} => apc \in {"exited", "panicked"}

\* C23: a panic of the processor on one item does not keep the other items
\* from being processed: when stop() has returned, the processor was invoked
\* on every item sent before stop(), and returned on each of them except
\* those on which it panicked.
C23_ProcessorPanicContained ==
    actor = "stopped" =>
        \A i \in 1 .. Len(stopSent) : stopSent[i] \in Range(processed)

\* C30: after the Actor handle was dropped without stop(), the actor thread
\* ends only by leaving its loop on the closed, empty mailbox, and by then
\* the processor has returned on every item that was sent, in the order sent.
C30_DropDrainsMailbox ==
    (actor = "dropped" /\ apc \notin {"recv", "proc"}) =>
        /\ apc = "exited"
        /\ mailbox = <<>>
        /\ processed = sent
        /\ Range(sent) = completed

\* C30, termination: under fair scheduling the thread of a dropped Actor ends.
C30_DroppedActorEnds == (actor = "dropped") ~> (apc \in {"exited", "panicked"})

\* C30 for an actor thread that left its loop normally: the mailbox is empty
\* and every item sent was processed, in order.
C30_ExitedAfterDraining ==
    (actor = "dropped" /\ apc = "exited") =>
        (mailbox = <<>> /\ processed = sent /\ Range(sent) = completed)

\* ------------------------------------------------------------------ cache claims
\* C14: the lock is held either by any number of readers and no writer or by
\* exactly one writer and no reader: an insert is never inside its critical
\* section together with a get or with another insert.
C14_ReadersXorWriter ==
    /\ writers = {} \/ (Cardinality(writers) = 1 /\ readers = {})
    /\ \A t \in CThreads :
          /\ t \in readers <=> cpc[t] = "read"
          /\ t \in writers <=> cpc[t] \in {"wlocked", "writing"}
    /\ \A t, u \in CThreads :
          (t # u /\ cpc[t] \in {"wlocked", "writing"}) => cpc[u] = "idle"

\* Several gets are inside their critical sections at once, after an insert.
C14_Witness ==
    /\ Cardinality(readers) >= 2
    /\ \E k \in Keys : cmap[k] # Absent

\* C15: a get never returns an entry that an insert is still writing, and no
\* reader is inside its critical section while any entry is being written.
C15_InsertAtomic ==
    /\ lastGet.got # Torn
    /\ lastGet.got \in {Absent} \cup Vals
    /\ readers # {} => torn = {}

\* A get of a key has returned its earlier value, and an insert that
\* overwrites this key with another value is now in the middle of its write.
C15_Witness ==
    /\ lastGet.key \in Keys
    /\ lastGet.got \in Vals
    /\ lastGet.key \in torn
    /\ \E t \in CThreads : cpc[t] = "writing" /\ cval[t] # lastGet.got

\* C16: get(k) returns the value of the most recent completed insert for k and
\* Absent exactly when no insert for k has completed; outside an insert the
\* map holds exactly the last inserted values; an entry once present is
\* present in every later state.
C16_GetSeesLastInsert ==
    /\ [](lastGet.key \in Keys => lastGet.got = lastGet.want)
    /\ [](writers = {} => cmap = committed)
    /\ [][\A k \in Keys : cmap[k] # Absent => cmap'[k] # Absent]_vars

\* A get returned a value, a later insert has overwritten that key with
\* another value, and another key was never inserted.
C16_Witness ==
    /\ lastGet.key \in Keys
    /\ lastGet.got \in Vals
    /\ writers = {}
    /\ cmap[lastGet.key] \in Vals
    /\ cmap[lastGet.key] # lastGet.got
    /\ \E k \in Keys : cmap[k] = Absent

\* C21: a panic of a thread that holds the write lock poisons the lock for
\* good; from then on no get or insert enters its critical section, the map
\* is neither read nor written, and every get or insert that is attempted
\* fails in its caller.  The same for the receiver mutex: once poisoned, no
\* worker holds it or receives from the queue.
C21_PoisonSurfaces ==
    /\ []((\E t \in CThreads : cpc[t] = "panicked") => rwPoisoned)
    /\ [](rwPoisoned => (readers = {} /\ writers = {}))
    /\ [](rwPoisoned =>
            \A t \in CThreads, k \in Keys, v \in Vals :
               (cache = "live" /\ cpc[t] = "idle") =>
                  /\ ENABLED GetPoisoned(t)
                  /\ ENABLED InsertPoisoned(t)
                  /\ ~ENABLED GetLock(t, k)
                  /\ ~ENABLED InsertLock(t, k, v))
    /\ [][rwPoisoned =>
            /\ rwPoisoned'
            /\ cmap' = cmap
            /\ torn' = torn
            /\ lastGet' = lastGet
            /\ \A t \in CThreads :
                  cpc'[t] # cpc[t] => (cpc[t] = "idle" /\ cpc'[t] = "panicked")]_vars
    /\ [](poisoned => (mutex = NoOne /\ \A w \in WorkerIds : wpc[w] # "recv"))

\* An insert panicked in the middle of writing an entry; after that a get by
\* a second thread and an insert by a third thread both failed.
C21_Witness ==
    /\ rwPoisoned
    /\ torn # {}
    /\ poisonFailures = {"get", "insert"}
    /\ Cardinality({t \in CThreads : cpc[t] = "panicked"}) = 3

\* ---------------------------------------------------------------- counter claims
\* C17: no two increment calls return the same value, the values returned so
\* far are exactly 0 .. n-1 for n calls, and get() after all T threads made
\* their K calls and were joined is T*K.
C17_NoLostIncrement ==
    /\ \A i, j \in 1 .. Len(returned) : i # j => returned[i].val # returned[j].val
    /\ {returned[i].val : i \in 1 .. Len(returned)} = 0 .. (Len(returned) - 1)
    /\ counter = "joined" =>
          /\ Len(returned) = MaxCounterThreads * MaxIncs
          /\ finalGet = MaxCounterThreads * MaxIncs

\* All threads are joined after calls of different threads interleaved.
C17_Witness ==
    /\ counter = "joined"
    /\ finalGet = MaxCounterThreads * MaxIncs
    /\ \E i \in 2 .. (Len(returned) - 1) :
          /\ returned[i].by # returned[i - 1].by
          /\ returned[i].by # returned[i + 1].by

\* ----------------------------------------------------------- parallel_sum claims
\* The left-to-right fold of d with + from 0 is the total of its elements,
\* each counted once: the number of pairs (index i, unit k of d[i]).
FoldLeft(d) == Cardinality({p \in (1 .. Len(d)) \X (1 .. 4) : p[2] <= d[p[1]]})

\* C18: for every slice, below, at or above the threshold, parallel_sum
\* returns the left-to-right sequential fold of the whole slice, and the two
\* parts of a split slice cover every element exactly once, in order.
C18_SumEqualsFold ==
    /\ ppc = "returned" => result = FoldLeft(data)
    /\ spawns > 0 => left \o right = data

\* A split slice of odd length with a non-zero sum has been reduced.
C18_Witness ==
    /\ ppc = "returned"
    /\ spawns = 1
    /\ Len(data) % 2 = 1
    /\ result > 0

\* C19 as stated: a thread is spawned exactly when the length exceeds the
\* threshold 100; a slice of length up to and including 100 spawns none.
C19_SpawnOnlyAboveThreshold ==
    ppc # "none" => (spawns = (IF Len(data) > 100 THEN 1 ELSE 0))

\* C19 as amended: a thread is spawned, and the slice split at its midpoint,
\* exactly when the length is at least 100; a slice shorter than 100 is
\* reduced sequentially with no thread.
C19_SpawnFromThreshold ==
    ppc # "none" =>
        /\ spawns = (IF Len(data) >= 100 THEN 1 ELSE 0)
        /\ spawns = 0 => (childpc = "unspawned" /\ ppc = "returned")
        /\ spawns = 1 => (Len(left) = Len(data) \div 2 /\ left \o right = data)

\* A slice of exactly the threshold length was split and a thread spawned.
C19_Witness ==
    /\ Len(data) = 100
    /\ spawns = 1
    /\ childpc = "running"

\* C20: when parallel_sum has returned, the thread it spawned (if any) has
\* ended and has been joined.
C20_ChildJoinedBeforeReturn ==
    ppc = "returned" =>
        \/ spawns = 0 /\ childpc = "unspawned"
        \/ spawns = 1 /\ childpc = "done" /\ childJoined

\* parallel_sum has returned after spawning and joining its thread.
C20_Witness ==
    /\ ppc = "returned"
    /\ spawns = 1
    /\ childJoined

Cached == {k \in LruKeys : map[k] # Absent}

\* The n most recently used keys, latest first.
MostRecent(n) == SubSeq(recency, 1, IF n < Len(recency) THEN n ELSE Len(recency))

\* C25: the cache never holds more than capacity entries; the order lists
\* every cached key exactly once and nothing else; and the cached keys are
\* exactly the most recently used ones, in order of their last use (so a put
\* of a new key into a full cache drops the least recently used key only).
C25_LruHoldsMostRecent ==
    lru = "live" =>
        /\ Cardinality(Cached) <= capacity
        /\ Len(order) = Cardinality(Cached)
        /\ Range(order) = Cached
        /\ order = MostRecent(capacity)

\* ---------------------------------------------------------- with_retry claims
\* C26: f is never called more than max_attempts times and never again after
\* a success; a call that returned Ok returns the value of the first
\* successful attempt, all attempts before it having failed; and with_retry
\* always returns: when no attempt succeeded, Err with the error of the last
\* attempt, after exactly max_attempts calls.
C26_RetryContract ==
    /\ Len(outcomes) <= maxAttempts
    /\ \A i \in 1 .. (Len(outcomes) - 1) : ~outcomes[i].ok
    /\ rpc = "ok" =>
          /\ outcomes[Len(outcomes)].ok
          /\ retVal = outcomes[Len(outcomes)].val
    /\ rpc = "err" =>
          /\ Len(outcomes) = maxAttempts
          /\ ~outcomes[Len(outcomes)].ok
          /\ retVal = outcomes[Len(outcomes)].val
    /\ rpc # "panicked"

====
